---- MODULE Spec2Model ----
(***************************************************************************)
(* VariousDBSCAN (src/variousDBSCAN.py): progressive density clustering.   *)
(* A tree of cluster nodes is grown level by level by running a DBSCAN     *)
(* primitive on every node of the current level with a radius that is      *)
(* updated once per level; afterwards every node's points are removed from *)
(* all of its ancestors and the nodes that are large enough are returned.  *)
(*                                                                         *)
(* Point collections (Python lists built from sets) are modelled as sets;  *)
(* the list handed to the primitive is the ascending enumeration of the    *)
(* set, and the primitive's labels are positional, as in the code.         *)
(* Radii are counted in units of original_epsilon / 2^MaxDepth, so that    *)
(* the halvings the model can perform are exact, as x / 2 is on floats.    *)
(***************************************************************************)
EXTENDS Integers, Sequences, FiniteSets, TLC

\* ---------------------------------------------------------------- bounds
NPoints == 4          \* largest n_points: rows of the distance matrix
MaxK == 2             \* largest finite max_depth passed to fit()
MaxMinPoints == 2     \* largest min_points passed to __init__
MaxFits == 2          \* fit() calls on one instance
MaxInstances == 2     \* instances constructed on the same inputs
MaxOrdered == 5       \* largest tree (non-root nodes) resolved in every order

MaxDepth == MaxK + 2  \* the deepest level the model follows an unbounded run to
Inf == MaxDepth + 1   \* np.inf, the default max_depth: above every depth
NOISE == 0 - 1        \* DBSCAN's noise label
Root == 1             \* index of the root node in the arena
NoNode == 0           \* parent of the root (None)

RECURSIVE Pow2(_)
Pow2(n) == IF n = 0 THEN 1 ELSE 2 * Pow2(n - 1)

original_epsilon == Pow2(MaxDepth)

VARIABLES
    n_points,          \* self.n_points = len(distance_matrix)
    nodes,             \* the tree self.progressive_clustering, as an arena
    min_points,        \* self.min_points
    update,            \* self.update_epsilon_func: "halve" (default), "keep", "double"
    dbscan_performed,  \* self.dbscan_performed
    clusters,          \* self.clusters: the list fit() returned last
    sources,           \* ghost: the node each entry of clusters comes from
    pc,                \* position of the caller: "idle", inside fit(), or "error"
    max_depth,         \* argument of the running fit()
    depth,             \* local of fit()
    new_eps,           \* local of fit()
    queue,             \* next_nodes still to be visited by the for loop of fit()
    fits,              \* ghost: fit() calls started on this instance
    instances,         \* ghost: instances constructed so far
    log,               \* ghost: what every completed fit() returned
    primitive,         \* the answers the deterministic primitive has given so far
    contract,          \* which label vectors the primitive may answer with
    call,              \* ghost: the last run_dbscan_on_node call
    pending,           \* nodes not yet visited by the overlap resolution in progress
    expected           \* ghost: the tree the deepest-first resolution yields

vars == <<n_points, nodes, min_points, update, dbscan_performed, clusters, sources, pc,
          max_depth, depth, new_eps, queue, fits, instances, log, primitive,
          contract, call, pending, expected>>

\* list(range(self.n_points))
Points == 0 .. (n_points - 1)

\* ------------------------------------------------------------- the tree
\* anytree.Node(label, clustered_points=..., parent=...).  created, born and
\* ran are ghosts: the points the node was created with, the fit() that
\* created it, and the radius of the last primitive run on it (0: none).
NewNode(label, pts, parent, d, fit) ==
    [label |-> label, points |-> pts, parent |-> parent, depth |-> d,
     created |-> pts, born |-> fit, ran |-> 0]

\* Node('', clustered_points=[])
RootNode == NewNode(NOISE, {}, NoNode, 0, 0)

Ids(t) == 1 .. Len(t)

\* node.children: in order of attachment
Children(t, n) == SelectSeq([i \in Ids(t) |-> i], LAMBDA i : t[i].parent = n)

\* node.parent alone, where the code takes all the ancestors.
AncestorsParentOnly(t, n) == {t[n].parent} \ {NoNode}

\* node.ancestors (spelled anchestors in the source): parent, grandparent, ... root
RECURSIVE Ancestors(_, _)
Ancestors(t, n) ==
    IF t[n].parent = NoNode THEN {}
    ELSE {t[n].parent} \cup Ancestors(t, t[n].parent)

RECURSIVE Flatten(_)
Flatten(ss) == IF ss = <<>> THEN <<>> ELSE Head(ss) \o Flatten(Tail(ss))

\* The nodes of depth d in the order anytree's pre-order iteration meets them.
RECURSIVE Level(_, _)
Level(t, d) ==
    IF d = 0 THEN <<Root>>
    ELSE LET up == Level(t, d - 1)
         IN Flatten([k \in 1 .. Len(up) |-> Children(t, up[k])])

Height(t) == IF Len(t) = 1 THEN 0
             ELSE CHOOSE d \in 1 .. Len(t) :
                    /\ \E i \in Ids(t) : t[i].depth = d
                    /\ \A i \in Ids(t) : t[i].depth <= d

\* sorted(root.descendants, key=lambda x: -x.depth): a stable sort of the
\* pre-order, so deepest level first and pre-order within a level.
RECURSIVE LevelsDown(_, _)
LevelsDown(t, d) == IF d = 0 THEN <<>> ELSE Level(t, d) \o LevelsDown(t, d - 1)

\* The ascending sort a key without its minus sign gives.
RECURSIVE LevelsUp(_, _, _)
LevelsUp(t, d, top) == IF d > top THEN <<>> ELSE Level(t, d) \o LevelsUp(t, d + 1, top)

ByDepthAscending(t) == LevelsUp(t, 1, Height(t))

ByDepthDescending(t) == LevelsDown(t, Height(t))

\* ------------------------------------------------------- the primitive
\* list(points): the ascending enumeration of a set of point indices
RECURSIVE Ascending(_)
Ascending(S) ==
    IF S = {} THEN <<>>
    ELSE LET m == CHOOSE x \in S : \A y \in S : x <= y
         IN <<m>> \o Ascending(S \ {m})

MaxLabel(labels) ==
    CHOOSE m \in {labels[k] : k \in DOMAIN labels} :
        \A k \in DOMAIN labels : labels[k] <= m

Clustered(labels) == {k \in DOMAIN labels : labels[k] # NOISE}

\* The cluster ids DBSCAN hands out are 0 .. k-1, each carried by a point.
Contiguous(labels) ==
    \A i \in 0 .. MaxLabel(labels) : \E k \in DOMAIN labels : labels[k] = i

\* The cluster ids follow the order in which DBSCAN meets the clusters.
FirstIndex(labels, i) ==
    CHOOSE k \in DOMAIN labels :
        labels[k] = i /\ \A j \in DOMAIN labels : labels[j] = i => k <= j

InOrderOfFirstIndex(labels) ==
    \A i \in 0 .. (MaxLabel(labels) - 1) :
        FirstIndex(labels, i) < FirstIndex(labels, i + 1)

Size(labels, i) == Cardinality({k \in DOMAIN labels : labels[k] = i})

\* Label vectors sklearn's DBSCAN can answer with on n points: ids 0..k-1 or
\* noise.  A cluster is grown from a core point, whose min_samples neighbours
\* (itself included) all join it unless an earlier cluster has taken them, so
\* cluster 0 holds at least min_samples points.  With min_samples <= 2 every
\* clustered point is a core point (a point with a neighbour has two in its
\* neighbourhood), so the clusters are the groups of at least min_samples
\* points connected within the radius, numbered in the order of their lowest
\* index.
DbscanLabels(n, mp) ==
    {l \in [1 .. n -> NOISE .. (n - 1)] :
        /\ Contiguous(l)
        /\ Clustered(l) # {} => Size(l, 0) >= mp
        /\ mp = 1 => Clustered(l) = 1 .. n
        /\ mp <= 2 => /\ InOrderOfFirstIndex(l)
                      /\ \A i \in 0 .. MaxLabel(l) : Size(l, i) >= mp}

\* Every vector of non-negative ids and noise labels, contiguous or not.
AnyLabels(n) == [1 .. n -> NOISE .. (n - 1)]

\* Both, tabulated by number of points and min_samples.
DbscanTable ==
    [n \in 1 .. NPoints |-> [mp \in 1 .. MaxMinPoints |-> DbscanLabels(n, mp)]]

AnyTable == [n \in 1 .. NPoints |-> AnyLabels(n)]

\* The primitive is deterministic: a question asked before gets its old answer.
Answers(S, eps) ==
    IF <<S, eps>> \in DOMAIN primitive THEN {primitive[<<S, eps>>]}
    ELSE IF contract = "dbscan" THEN DbscanTable[Cardinality(S)][min_points]
    ELSE AnyTable[Cardinality(S)]

Remember(S, eps, labels) ==
    IF <<S, eps>> \in DOMAIN primitive THEN primitive
    ELSE [q \in DOMAIN primitive \cup {<<S, eps>>} |->
            IF q = <<S, eps>> THEN labels ELSE primitive[q]]

\* ------------------------------------------------- run_dbscan_on_node
\* The local (0-based) indices, where the code maps them back through points_idx.
OriginalIdxLocal(points_idx, labels, cluster_i) ==
    {k - 1 : k \in {j \in DOMAIN labels : labels[j] = cluster_i}}

\* local_idx = set(np.where(dbscan.labels_ == cluster_i)[0])
\* original_idx = [points_idx[k] for k in local_idx]
OriginalIdx(points_idx, labels, cluster_i) ==
    {points_idx[k] : k \in {j \in DOMAIN labels : labels[j] = cluster_i}}

\* for cluster_i in range(max(dbscan.labels_) + 1): Node(str(cluster_i), ...)
NewChildren(t, parent, points_idx, labels, fit) ==
    [i \in 1 .. (MaxLabel(labels) + 1) |->
        NewNode(i - 1, OriginalIdx(points_idx, labels, i - 1), parent,
                t[parent].depth + 1, fit)]

\* The tree after one call run_dbscan_on_node(points_idx, eps, parent_node).
Attach(t, parent, points_idx, eps, labels, fit) ==
    [t EXCEPT ![parent].ran = eps] \o NewChildren(t, parent, points_idx, labels, fit)

\* ------------------------------- remove_child_cluster_points_from_parents
\* child_node.path in place of child_node.anchestors: the node empties itself too.
SubtractFromPath(t, child) ==
    [i \in Ids(t) |->
        IF i \in Ancestors(t, child) \cup {child}
        THEN [t[i] EXCEPT !.points = @ \ t[child].points]
        ELSE t[i]]

\* One turn of the outer loop: child_node's points leave all its ancestors.
SubtractFrom(t, child) ==
    [i \in Ids(t) |->
        IF i \in Ancestors(t, child)
        THEN [t[i] EXCEPT !.points = @ \ t[child].points]
        ELSE t[i]]

RECURSIVE SubtractAll(_, _)
SubtractAll(t, order) ==
    IF order = <<>> THEN t
    ELSE SubtractAll(SubtractFrom(t, Head(order)), Tail(order))

\* The pass left out.
NoSubtraction(t) == t

RemoveChildClusterPointsFromParents(t) == SubtractAll(t, ByDepthDescending(t))

\* ------------------------------------------------------ fit: extraction
\* [node.clustered_points for node in sorted(..., key=-(depth + 1))
\*  if len(node.clustered_points) >= self.min_points]
\* KeptStrict is the docstring's "more points than": > where the code has >=.
KeptStrict(t) == SelectSeq(ByDepthDescending(t),
                           LAMBDA i : Cardinality(t[i].points) > min_points)

Kept(t) == SelectSeq(ByDepthDescending(t),
                     LAMBDA i : Cardinality(t[i].points) >= min_points)

\* UpdateQuarter: a default that divides by 4.
UpdateQuarter(x) ==
    CASE update = "halve" -> x \div 4
      [] update = "keep" -> x
      [] update = "double" -> 2 * x

\* x -> x / 2 by default; "keep" and "double" stand for non-decreasing functions
update_epsilon_func(x) ==
    CASE update = "halve" -> x \div 2
      [] update = "keep" -> x
      [] update = "double" -> 2 * x


\* ------------------------------------------------------------ __init__
\* self.clusters = None, which the model does not tell from an empty list
None == <<>>

NoCall == [parent |-> NoNode, points_idx |-> <<>>, labels |-> <<>>, first |-> 0]

Updates == {"halve", "keep", "double"}

InitWith(c) ==
    /\ n_points \in 1 .. NPoints
    /\ nodes = <<RootNode>>
    /\ min_points \in 1 .. MaxMinPoints
    /\ update \in Updates
    /\ dbscan_performed = 0
    /\ clusters = None
    /\ sources = <<>>
    /\ pc = "idle"
    /\ max_depth = Inf
    /\ depth = 0
    /\ new_eps = original_epsilon
    /\ queue = <<>>
    /\ fits = 0
    /\ instances = 1
    /\ log = <<>>
    /\ primitive = <<>>
    /\ contract = c
    /\ call = NoCall
    /\ pending = {}
    /\ expected = <<>>

Init == InitWith("dbscan")

\* A further instance on the same inputs: VariousDBSCAN(distance_matrix, ...)
Construct ==
    /\ pc \in {"idle", "error"}
    /\ instances < MaxInstances
    /\ fits > 0
    /\ instances' = instances + 1
    /\ nodes' = <<RootNode>>
    /\ clusters' = None
    /\ sources' = <<>>
    /\ dbscan_performed' = 0
    /\ fits' = 0
    /\ pc' = "idle"
    /\ queue' = <<>>
    /\ call' = NoCall
    /\ UNCHANGED <<n_points, min_points, update, max_depth, depth, new_eps, log, primitive,
                   contract, pending, expected>>

\* ----------------------------------------------------------------- fit
\* The state change of one run_dbscan_on_node(points, eps, parent_node)
\* whose primitive answers with labels.
RunDbscanOnNode(S, eps, parent, labels, fit) ==
    /\ nodes' = Attach(nodes, parent, Ascending(S), eps, labels, fit)
    /\ dbscan_performed' = dbscan_performed + 1
    /\ primitive' = Remember(S, eps, labels)
    /\ call' = [parent |-> parent, points_idx |-> Ascending(S), labels |-> labels,
                first |-> Len(nodes) + 1]

\* The max_depth arguments tried: finite ones and the default, np.inf (the
\* runs against arbitrary label vectors are given finite ones only).
MaxDepths == IF contract = "any" THEN 0 .. MaxK ELSE (0 .. MaxK) \cup {Inf}

\* fit(max_depth=k) up to the loop: the first run, on all the points.
FitStart ==
    /\ pc = "idle"
    /\ \E k \in MaxDepths :
         /\ max_depth' = k
         /\ \E labels \in Answers(Points, original_epsilon) :
              RunDbscanOnNode(Points, original_epsilon, Root, labels, fits + 1)
    /\ new_eps' = original_epsilon
    /\ depth' = 1
    /\ fits' = fits + 1
    /\ pc' = "loop"
    /\ UNCHANGED <<n_points, min_points, update, clusters, sources, queue, instances, log,
                   contract, pending, expected>>

\* fit() on a newly constructed instance
FitBegin == fits = 0 /\ FitStart

\* fit() once more on an instance that has been fitted
FitAgain == fits > 0 /\ fits < MaxFits /\ FitStart

\* The comparison off by one, and a finite default in place of np.inf.
DepthReachedOff == depth > max_depth

DepthReachedDefault == depth >= max_depth \/ depth >= MaxK

\* if depth >= max_depth: break

DepthReached == depth >= max_depth

\* The head of the while loop: both breaks, or the step to the next level.
LoopHead ==
    /\ pc = "loop"
    /\ IF DepthReached \/ Level(nodes, depth) = <<>>
       THEN /\ pc' = "resolve"
            /\ UNCHANGED <<depth, new_eps, queue>>
       ELSE /\ depth < MaxDepth
            /\ queue' = Level(nodes, depth)
            /\ depth' = depth + 1
            /\ new_eps' = update_epsilon_func(new_eps)
            /\ pc' = "runs"
    /\ UNCHANGED <<n_points, nodes, min_points, update, dbscan_performed, clusters, sources,
                   max_depth, fits, instances, log, primitive, contract, call,
                   pending, expected>>

\* One turn of "for bottom_node in next_nodes".  The primitive raises on an
\* empty sample, and fit() lets the exception through.
RunNode ==
    /\ pc = "runs"
    /\ LET bottom_node == Head(queue)
           S == nodes[bottom_node].points
       IN IF S = {}
          THEN /\ pc' = "error"
               /\ queue' = <<>>
               /\ UNCHANGED <<nodes, dbscan_performed, primitive, call>>
          ELSE /\ \E labels \in Answers(S, new_eps) :
                    RunDbscanOnNode(S, new_eps, bottom_node, labels, fits)
               /\ queue' = Tail(queue)
               /\ pc' = IF Tail(queue) = <<>> THEN "loop" ELSE "runs"
    /\ UNCHANGED <<n_points, min_points, update, clusters, sources, max_depth, depth, new_eps,
                   fits, instances, log, contract, pending, expected>>

\* self.clusters = [...]; return self.clusters
Return(t) ==
    /\ clusters' = [k \in 1 .. Len(Kept(t)) |-> t[Kept(t)[k]].points]
    /\ sources' = Kept(t)
    /\ log' = Append(log, [instance |-> instances, fit |-> fits,
                           max_depth |-> max_depth,
                           clusters |-> [k \in 1 .. Len(Kept(t)) |-> t[Kept(t)[k]].points]])
    /\ pc' = "idle"

\* The tail of fit(): overlap resolution, extraction, return.
Finish ==
    /\ pc = "resolve"
    /\ nodes' = RemoveChildClusterPointsFromParents(nodes)
    /\ Return(RemoveChildClusterPointsFromParents(nodes))
    /\ UNCHANGED <<n_points, min_points, update, dbscan_performed, max_depth, depth, new_eps,
                   queue, fits, instances, primitive, contract, call, pending, expected>>

Next == FitBegin \/ LoopHead \/ RunNode \/ Finish

Spec == Init /\ [][Next]_vars

\* The same program, with the default update function and min_points = 1 on
\* fewer than NPoints points, run against every label vector of non-negative
\* ids and noise labels.
InitAnyLabels ==
    InitWith("any") /\ update = "halve" /\ min_points = 1 /\ n_points < NPoints

SpecAnyLabels == InitAnyLabels /\ [][Next]_vars

\* Overlap resolution visiting the non-root nodes in an arbitrary order.
StartResolve ==
    /\ pc = "resolve"
    /\ Len(nodes) - 1 <= MaxOrdered
    /\ pending' = Ids(nodes) \ {Root}
    /\ expected' = RemoveChildClusterPointsFromParents(nodes)
    /\ pc' = "resolving"
    /\ UNCHANGED <<n_points, nodes, min_points, update, dbscan_performed, clusters, sources,
                   max_depth, depth, new_eps, queue, fits, instances, log, primitive,
                   contract, call>>

ResolveOne ==
    /\ pc = "resolving"
    /\ \E child_node \in pending :
         /\ nodes' = SubtractFrom(nodes, child_node)
         /\ pending' = pending \ {child_node}
    /\ UNCHANGED <<n_points, min_points, update, dbscan_performed, clusters, sources, pc,
                   max_depth, depth, new_eps, queue, fits, instances, log, primitive,
                   contract, call, expected>>

Extract ==
    /\ pc = "resolving"
    /\ pending = {}
    /\ Return(nodes)
    /\ UNCHANGED <<n_points, nodes, min_points, update, dbscan_performed, max_depth, depth,
                   new_eps, queue, fits, instances, primitive, contract, call,
                   pending, expected>>

\* A tree above MaxOrdered nodes is resolved in the code's order alone.
FinishLarge == Len(nodes) - 1 > MaxOrdered /\ Finish

NextOrder ==
    FitBegin \/ LoopHead \/ RunNode \/ StartResolve \/ ResolveOne \/ Extract \/ FinishLarge

SpecOrder == Init /\ [][NextOrder]_vars

\* Instances that are fitted again, and further instances on the same inputs.
NextRefit == Next \/ FitAgain \/ Construct

SpecRefit == Init /\ [][NextRefit]_vars


\* ============================================================== claims
Descendants(t, n) == {d \in Ids(t) : n \in Ancestors(t, d)}

NonRoot(t) == Ids(t) \ {Root}

\* The first fit() of the instance has returned.
FirstFitDone == pc = "idle" /\ fits = 1

Returned == UNION {clusters[i] : i \in DOMAIN clusters}

Max(a, b) == IF a >= b THEN a ELSE b

\* C1: after fit() on a newly constructed instance, any two distinct entries
\* of the returned list are disjoint.
C1_Disjoint ==
    FirstFitDone =>
        \A i, j \in DOMAIN clusters : i # j => clusters[i] \cap clusters[j] = {}

\* C1 witness: a node and one of its descendants are both returned, and the
\* descendant's points were among those the node was created with.
C1_Witness ==
    /\ FirstFitDone
    /\ \E i, j \in DOMAIN clusters :
         /\ sources[i] \in Descendants(nodes, sources[j])
         /\ clusters[i] \subseteq nodes[sources[j]].created

\* C2 (as stated): any two fit() calls on the same inputs, on one instance or
\* on two, return identical lists.
C2_SameInputsSameResult ==
    \A i, j \in DOMAIN log :
        log[i].max_depth = log[j].max_depth => log[i].clusters = log[j].clusters

\* C2, the half that holds: the first fit() of separately constructed
\* instances on the same inputs return identical lists.
C2_FreshInstancesAgree ==
    \A i, j \in DOMAIN log :
        (log[i].fit = 1 /\ log[j].fit = 1 /\ log[i].max_depth = log[j].max_depth)
            => log[i].clusters = log[j].clusters

\* C3 (as stated): fit(max_depth=k) with finite k builds no node deeper than k.
C3_DepthAtMostK ==
    (fits > 0 /\ max_depth # Inf) =>
        \A n \in NonRoot(nodes) : nodes[n].born = fits => nodes[n].depth <= max_depth

\* C3, the bound on the levels: at most max(k, 1) levels run, and no node
\* created by this fit() is deeper.
C3_LevelsAtMostKOrOne ==
    (fits > 0 /\ max_depth # Inf) =>
        /\ depth <= Max(max_depth, 1)
        /\ \A n \in NonRoot(nodes) :
             nodes[n].born = fits => nodes[n].depth <= Max(max_depth, 1)

\* What is left of a fit() with finite max_depth: the levels it may still
\* run, and within a level the nodes still to visit, then the tail of fit().
LevelsLeft == Max(max_depth, 1) - depth

StepsLeft ==
    CASE pc = "runs" -> 2 + Len(queue)
      [] pc = "loop" -> 2
      [] pc = "resolve" -> 1
      [] OTHER -> 0

\* C3 (amended): fit(max_depth=k) with finite k runs the primitive for at most
\* max(k, 1) levels, creates no node deeper than max(k, 1), and terminates
\* (every step of it uses up a level, or a step of the current level),
\* whatever the update function.
C3_DepthAtMostKOrOne ==
    /\ []C3_LevelsAtMostKOrOne
    /\ [][(pc \in {"loop", "runs", "resolve"} /\ max_depth # Inf)
            => \/ LevelsLeft' < LevelsLeft /\ LevelsLeft' >= 0
               \/ LevelsLeft' = LevelsLeft /\ StepsLeft' < StepsLeft]_vars

\* C3 witness: a run with a non-decreasing update function has returned with
\* nodes at depth k that the loop did not cluster again.
C3_Witness ==
    /\ FirstFitDone
    /\ update # "halve"
    /\ max_depth \in 1 .. MaxK
    /\ Level(nodes, max_depth) # <<>>
    /\ \A n \in NonRoot(nodes) : nodes[n].depth = max_depth => nodes[n].ran = 0

\* C4: the update function is applied once per level: every primitive run on
\* a node of depth d + 1 uses update(radius used on its parent of depth d),
\* the run on the root uses the original radius, and with the default
\* halving the radius used on the nodes of depth d is original_epsilon / 2^d.
C4_RadiusPerLevel ==
    \A n \in Ids(nodes) :
        nodes[n].ran # 0 =>
            /\ n = Root => nodes[n].ran = original_epsilon
            /\ n # Root =>
                 \E r \in {nodes[nodes[n].parent].ran} :
                    nodes[n].ran = (CASE update = "halve" -> r \div 2
                                      [] update = "keep" -> r
                                      [] update = "double" -> 2 * r)
            /\ update = "halve" => nodes[n].ran * Pow2(nodes[n].depth) = original_epsilon

\* C4 witness: with the default halving, two nodes of the same depth 2 have
\* both been clustered again.
C4_Witness ==
    /\ update = "halve"
    /\ \E m, n \in NonRoot(nodes) :
         /\ m # n
         /\ nodes[m].depth = 2 /\ nodes[n].depth = 2
         /\ nodes[m].ran # 0 /\ nodes[n].ran # 0

\* p was labeled noise by every primitive run it took part in: no node was
\* ever created with it.
NoiseEverywhere(p) == \A n \in NonRoot(nodes) : p \notin nodes[n].created

C6_DepthOrdered ==
    (pc = "idle" /\ fits > 0) =>
        \A i, j \in DOMAIN sources :
            i < j => nodes[sources[i]].depth >= nodes[sources[j]].depth

\* C6 witness: entries from nodes of two different depths are returned.
C6_Witness ==
    /\ pc = "idle" /\ fits > 0
    /\ \E i, j \in DOMAIN sources : nodes[sources[i]].depth > nodes[sources[j]].depth

\* The nodes that hold p now.
Holders(p) == {n \in Ids(nodes) : p \in nodes[n].points}

\* C7: after overlap resolution on a new instance, every node's points are
\* disjoint from those of its descendants, and every point a non-root node was
\* created with is held by exactly one node, the deepest created with it.
C7_DeepestHolds ==
    FirstFitDone =>
        /\ \A n \in Ids(nodes) : \A d \in Descendants(nodes, n) :
             nodes[n].points \cap nodes[d].points = {}
        /\ \A p \in Points :
             ~NoiseEverywhere(p) =>
                \E n \in NonRoot(nodes) :
                    /\ Holders(p) = {n}
                    /\ p \in nodes[n].created
                    /\ \A m \in NonRoot(nodes) :
                         (m # n /\ p \in nodes[m].created) => nodes[m].depth < nodes[n].depth

\* C7 witness: a point that nodes of three depths were created with.
C7_Witness ==
    /\ FirstFitDone
    /\ \E p \in Points : \E n \in NonRoot(nodes) :
         /\ nodes[n].depth = 3
         /\ Holders(p) = {n}

\* The children the last run_dbscan_on_node call created.
Created == call.first .. Len(nodes)

DistinctLabels == {call.labels[k] : k \in DOMAIN call.labels} \ {NOISE}

WithLabel(i) == {call.points_idx[k] : k \in {j \in DOMAIN call.labels : call.labels[j] = i}}

\* C8 (as stated): for any vector of non-negative ids and noise labels, one
\* call creates one child per distinct non-negative label, holding the
\* original indices with that label, and never an empty node.
C8_ChildPerLabel ==
    call.parent # NoNode =>
        /\ Cardinality(Created) = Cardinality(DistinctLabels)
        /\ \A c \in Created :
             /\ nodes[c].parent = call.parent
             /\ nodes[c].created = WithLabel(nodes[c].label)
             /\ nodes[c].created # {}

\* C8 (amended): one call creates one child per integer from 0 to the largest
\* label, each holding the original indices with that label (none for a value
\* no point carries); when the labels are 0..k-1 with every value carried, as
\* DBSCAN's are, that is one child per distinct label and none is empty.
C8_ChildPerLabelUpToMax ==
    call.parent # NoNode =>
        /\ Cardinality(Created) = MaxLabel(call.labels) + 1
        /\ \A i \in 0 .. MaxLabel(call.labels) :
             \E c \in Created : nodes[c].label = i
        /\ \A c \in Created :
             /\ nodes[c].parent = call.parent
             /\ nodes[c].depth = nodes[call.parent].depth + 1
             /\ nodes[c].created = WithLabel(nodes[c].label)
        /\ Contiguous(call.labels) =>
             /\ Cardinality(Created) = Cardinality(DistinctLabels)
             /\ \A c \in Created : nodes[c].created # {}

\* C8 witness: a call on a node below the root whose list of points is not
\* 0..n-1, answered with two clusters numbered 0 and 1.
C8_Witness ==
    /\ call.parent \notin {NoNode, Root}
    /\ \E k \in DOMAIN call.points_idx : call.points_idx[k] # k - 1
    /\ Cardinality(DistinctLabels) = 2
    /\ Contiguous(call.labels)

\* C9: overlap resolution visiting the non-root nodes in any order leaves
\* every node with the point set the code's deepest-first order leaves it.
C9_OrderIndependent ==
    (pc = "resolving" /\ pending = {}) => nodes = expected

\* C9 witness: a resolution in arbitrary order has ended on a tree in which a
\* node lost points to a grandchild.
C9_Witness ==
    /\ pc = "resolving"
    /\ pending = {}
    /\ \E n \in NonRoot(nodes) : \E g \in Descendants(nodes, n) :
         /\ nodes[g].depth = nodes[n].depth + 2
         /\ nodes[g].points # {}
         /\ nodes[g].points \subseteq nodes[n].created

\* Some cluster re-clusters to itself: a node was created with exactly the
\* points the run on its parent was given.
Reclusters ==
    \E n \in NonRoot(nodes) :
        nodes[n].created = IF nodes[n].parent = Root THEN Points
                           ELSE nodes[nodes[n].parent].created

\* C10: with max_depth unbounded the loop of fit() is left only at a depth
\* that has no nodes; with an update function that keeps the radius, a run in
\* which a cluster re-clusters to itself never leaves the loop, and raises no
\* error.
C10_StopsOnlyWhenEmpty ==
    (fits = 1 /\ max_depth = Inf) =>
        /\ pc \in {"resolve", "idle"} => Level(nodes, depth) = <<>>
        /\ (update = "keep" /\ Reclusters) => pc \in {"loop", "runs"}

\* C10 witness: such a run at the deepest level the model follows it to, with
\* nodes still to cluster.
C10_Witness ==
    /\ fits = 1 /\ max_depth = Inf
    /\ update = "keep"
    /\ Reclusters
    /\ pc = "loop"
    /\ depth = MaxDepth
    /\ Level(nodes, depth) # <<>>

====
